---- MODULE Spec2Model ----
(***************************************************************************)
(* Universal Product Analyzer (src/app.py): a Streamlit script.  Every     *)
(* user interaction (a category selection, a search entry) re-runs the     *)
(* script from the top over the cached product table.  One run is modelled *)
(* statement group by statement group (pc), so that a run that faults or   *)
(* stops early is visible as such.                                         *)
(*                                                                         *)
(* Text is a sequence of one-character strings.  Ratings are in tenths     *)
(* (45 is 4.5), feature scores are whole numbers out of 10.                *)
(***************************************************************************)
EXTENDS Integers, Sequences, FiniteSets, TLC

VARIABLES
    file,       \* contents of master_mixed_dataset.csv (rows in file order)
    cached,     \* st.cache_resource holds the result of load_master_data
    loads,      \* number of pd.read_csv calls made in the session
    df,         \* the module-level table of the current run
    category,   \* state of the st.radio widget
    search,     \* state of the st.text_input widget
    pc,         \* position of the current script run
    cat_df,     \* line 163
    filtered,   \* line 169
    product,    \* line 176: <<>> or <<row>>
    shown,      \* the product header (lines 181-191) has been rendered
    final_score,\* line 297, in tenths; -1 before it is computed
    verdict,    \* the verdict sentence of lines 304-312
    outcome,    \* how the last finished run ended
    reviews,    \* aggregation pipeline: the input reviews
    labels,     \* aggregation pipeline: sentiment labels, one set per review
    summaries,  \* aggregation pipeline: ProductSummary records
    cpc         \* aggregation pipeline: position

appVars  == <<file, cached, loads, df, category, search, pc, cat_df, filtered,
              product, shown, final_score, verdict, outcome>>
coreVars == <<reviews, labels, summaries, cpc>>
vars     == <<file, cached, loads, df, category, search, pc, cat_df, filtered,
              product, shown, final_score, verdict, outcome,
              reviews, labels, summaries, cpc>>

---------------------------------------------------------------------------
(* Bounds and input domains *)

MaxRows == 2

MaxReviews == 2

\* keys of CATEGORY_ICONS, in the order st.radio lists them
CATEGORY_ICONS == <<"Phones", "Clothing", "Books", "Appliances", "Cosmetics">>

RadioOptions == {CATEGORY_ICONS[i] : i \in 1..Len(CATEGORY_ICONS)}

\* categories that occur in the modelled CSV files
FileCategories == {"Phones", "Books"}

T_iPhone    == <<"i","P","h","o","n","e">>
T_Phonebook == <<"P","h","o","n","e","b","o","o","k">>

ProductNames == {T_iPhone, T_Phonebook}

FileRatings == {20, 45}

FileScores == { <<9, 8, 9, 7>>, <<2, 3, 1, 2>> }

FileRows == [name : ProductNames, category : FileCategories,
             rating : FileRatings, scores : FileScores]

S_empty == << >>
S_phone == <<"p","h","o","n","e">>
S_BOOK  == <<"B","O","O","K">>
S_dot   == <<".">>
S_paren == <<"(">>
S_xyz   == <<"x","y","z">>

SearchTexts == {S_empty, S_phone, S_BOOK, S_dot, S_paren, S_xyz}

SeqsUpTo(S, n) == UNION {[1..k -> S] : k \in 0..n}

---------------------------------------------------------------------------
(* Text matching: Series.str.contains(search, case=False, na=False).       *)
(* regex defaults to True, so the search text is compiled as a regular     *)
(* expression with re.IGNORECASE and re.search is applied to each name.    *)
(* Over the modelled characters: a letter is a literal, "." matches any    *)
(* character, and "(" opens a group that is never closed (re.error).       *)

Lower(c) ==
    CASE c = "A" -> "a" [] c = "B" -> "b" [] c = "C" -> "c" [] c = "D" -> "d"
      [] c = "E" -> "e" [] c = "F" -> "f" [] c = "G" -> "g" [] c = "H" -> "h"
      [] c = "I" -> "i" [] c = "J" -> "j" [] c = "K" -> "k" [] c = "L" -> "l"
      [] c = "M" -> "m" [] c = "N" -> "n" [] c = "O" -> "o" [] c = "P" -> "p"
      [] c = "Q" -> "q" [] c = "R" -> "r" [] c = "S" -> "s" [] c = "T" -> "t"
      [] c = "U" -> "u" [] c = "V" -> "v" [] c = "W" -> "w" [] c = "X" -> "x"
      [] c = "Y" -> "y" [] c = "Z" -> "z" [] OTHER -> c

RegexCompiles(pat) == \A i \in 1..Len(pat) : pat[i] # "("

RegexCharMatches(p, c) == p = "." \/ Lower(p) = Lower(c)

RegexSearchIgnoreCase(pat, text) ==
    \E off \in 0..(Len(text) - Len(pat)) :
        \A i \in 1..Len(pat) : RegexCharMatches(pat[i], text[off + i])

StrContains(rows, pat) ==
    SelectSeq(rows, LAMBDA r : RegexSearchIgnoreCase(pat, r.name))

---------------------------------------------------------------------------
(* The statements of the script *)

\* a filter that keeps every row
SelectAllRows(rows, c) == rows

\* df[df["category"] == category]
SelectByCategory(rows, c) == SelectSeq(rows, LAMBDA r : r.category = c)

\* .iloc[-1] instead of .iloc[0]
iloc_last(rows) == rows[Len(rows)]

\* .iloc[0] of a non-empty frame
iloc0(rows) == rows[1]

\* round((quality + value + durability + design) / 4, 1), in tenths.  The
\* mean of four whole numbers ends in .0, .25, .5 or .75, all exact in
\* binary floating point, and round() rounds the two halves to even.
FinalScore(scores) ==
    LET s == scores[1] + scores[2] + scores[3] + scores[4]
        q == s \div 4
        r == s % 4
    IN  10 * q + (CASE r = 0 -> 0 [] r = 1 -> 2 [] r = 2 -> 5 [] OTHER -> 8)

\* the sentence of lines 307-310: no condition guards it
VerdictText(row) == "recommended"

\* load_master_data without its cache decorator
CacheAlwaysMiss(isCached) == TRUE

\* @st.cache_resource: read_csv runs only when nothing is cached
CacheMiss(isCached) == ~isCached

ResetRun ==
    /\ cat_df' = << >>
    /\ filtered' = << >>
    /\ product' = << >>
    /\ shown' = FALSE
    /\ final_score' = -1
    /\ verdict' = "none"
    /\ outcome' = "none"

RunVarsUnchanged == UNCHANGED <<cat_df, filtered, product, shown, final_score,
                                verdict, outcome>>

Init ==
    /\ file \in SeqsUpTo(FileRows, MaxRows)
    /\ cached = FALSE
    /\ loads = 0
    /\ df = << >>
    /\ category = CATEGORY_ICONS[1]
    /\ search = S_empty
    /\ pc = "load"
    /\ cat_df = << >>
    /\ filtered = << >>
    /\ product = << >>
    /\ shown = FALSE
    /\ final_score = -1
    /\ verdict = "none"
    /\ outcome = "none"
    /\ reviews = << >>
    /\ labels = << >>
    /\ summaries = << >>
    /\ cpc = "off"

\* the user picks a radio option: the script re-runs
SelectCategory(c) ==
    /\ pc = "idle"
    /\ c # category
    /\ category' = c
    /\ pc' = "load"
    /\ ResetRun
    /\ UNCHANGED <<file, cached, loads, df, search>>
    /\ UNCHANGED coreVars

\* the user commits a search text: the script re-runs
EnterSearch(s) ==
    /\ pc = "idle"
    /\ s # search
    /\ search' = s
    /\ pc' = "load"
    /\ ResetRun
    /\ UNCHANGED <<file, cached, loads, df, category>>
    /\ UNCHANGED coreVars

\* line 130: df = load_master_data()
load_master_data ==
    /\ pc = "load"
    /\ IF CacheMiss(cached)
         THEN /\ df' = file
              /\ loads' = loads + 1
              /\ cached' = TRUE
         ELSE UNCHANGED <<df, loads, cached>>
    /\ pc' = "filter_category"
    /\ UNCHANGED <<file, category, search>>
    /\ RunVarsUnchanged
    /\ UNCHANGED coreVars

\* lines 154-163: the radio value selects the rows of the table
FilterCategory ==
    /\ pc = "filter_category"
    /\ cat_df' = SelectByCategory(df, category)
    /\ pc' = "search_bar"
    /\ UNCHANGED <<file, cached, loads, df, category, search>>
    /\ UNCHANGED <<filtered, product, shown, final_score, verdict, outcome>>
    /\ UNCHANGED coreVars

\* line 168: the placeholder reads cat_df.iloc[0]['name']; on an empty
\* frame that raises IndexError and the run ends there
SearchBar ==
    /\ pc = "search_bar"
    /\ IF cat_df = << >>
         THEN /\ outcome' = "fault"
              /\ pc' = "idle"
         ELSE /\ outcome' = outcome
              /\ pc' = "filter_search"
    /\ UNCHANGED <<file, cached, loads, df, category, search>>
    /\ UNCHANGED <<cat_df, filtered, product, shown, final_score, verdict>>
    /\ UNCHANGED coreVars

\* line 169
FilterSearch ==
    /\ pc = "filter_search"
    /\ IF search # << >>
         THEN IF RegexCompiles(search)
                THEN /\ filtered' = StrContains(cat_df, search)
                     /\ outcome' = outcome
                     /\ pc' = "check_empty"
                ELSE /\ filtered' = filtered
                     /\ outcome' = "fault"
                     /\ pc' = "idle"
         ELSE /\ filtered' = cat_df
              /\ outcome' = outcome
              /\ pc' = "check_empty"
    /\ UNCHANGED <<file, cached, loads, df, category, search>>
    /\ UNCHANGED <<cat_df, product, shown, final_score, verdict>>
    /\ UNCHANGED coreVars

\* lines 171-173: st.warning, st.stop
CheckEmpty ==
    /\ pc = "check_empty"
    /\ IF search # << >> /\ filtered = << >>
         THEN /\ outcome' = "warning"
              /\ pc' = "idle"
         ELSE /\ outcome' = outcome
              /\ pc' = "pick"
    /\ UNCHANGED <<file, cached, loads, df, category, search>>
    /\ UNCHANGED <<cat_df, filtered, product, shown, final_score, verdict>>
    /\ UNCHANGED coreVars

\* lines 175-176: product = filtered.iloc[0]
PickProduct ==
    /\ pc = "pick"
    /\ IF filtered = << >>
         THEN /\ product' = product
              /\ outcome' = "fault"
              /\ pc' = "idle"
         ELSE /\ product' = << iloc0(filtered) >>
              /\ outcome' = outcome
              /\ pc' = "header"
    /\ UNCHANGED <<file, cached, loads, df, category, search>>
    /\ UNCHANGED <<cat_df, filtered, shown, final_score, verdict>>
    /\ UNCHANGED coreVars

\* lines 181-191
ProductHeader ==
    /\ pc = "header"
    /\ shown' = TRUE
    /\ pc' = "verdict"
    /\ UNCHANGED <<file, cached, loads, df, category, search>>
    /\ UNCHANGED <<cat_df, filtered, product, final_score, verdict, outcome>>
    /\ UNCHANGED coreVars

\* lines 296-312
FinalVerdict ==
    /\ pc = "verdict"
    /\ final_score' = FinalScore(product[1].scores)
    /\ verdict' = VerdictText(product[1])
    /\ outcome' = "rendered"
    /\ pc' = "idle"
    /\ UNCHANGED <<file, cached, loads, df, category, search>>
    /\ UNCHANGED <<cat_df, filtered, product, shown>>
    /\ UNCHANGED coreVars

Next ==
    \/ \E c \in RadioOptions : SelectCategory(c)
    \/ \E s \in SearchTexts : EnterSearch(s)
    \/ load_master_data
    \/ FilterCategory
    \/ SearchBar
    \/ FilterSearch
    \/ CheckEmpty
    \/ PickProduct
    \/ ProductHeader
    \/ FinalVerdict

Spec == Init /\ [][Next]_vars

---------------------------------------------------------------------------
(* The aggregation pipeline of sections 3, 4.1 and 4.2: classify every     *)
(* review by its rating, then group the reviews by (product_title,         *)
(* category).  app.py reads ready-made columns instead, so this part is    *)
(* written from the specification.                                         *)

ReviewTitles == {"Widget A", "Widget B"}

ReviewCategories == {"Electronics", "Books"}

\* tenths: 0.5 and 6.0 lie outside the 1..5 scale, 3.5 between the thresholds
ReviewRatings == {5, 29, 30, 35, 40, 60}

Reviews == [product_title : ReviewTitles, category : ReviewCategories,
            rating : ReviewRatings]

\* rating >= 4 -> Positive; rating == 3 -> Neutral; rating < 3 -> Negative
SentimentLabelsOffByOne(r) ==
    (IF r > 40 THEN {"Positive"} ELSE {})
      \cup (IF r = 30 THEN {"Neutral"} ELSE {})
      \cup (IF r < 30 THEN {"Negative"} ELSE {})

SentimentLabels(r) ==
    (IF r >= 40 THEN {"Positive"} ELSE {})
      \cup (IF r = 30 THEN {"Neutral"} ELSE {})
      \cup (IF r < 30 THEN {"Negative"} ELSE {})

\* the looser grouping of one repository variant: by title alone
TitleOnlyKey(rev) == <<rev.product_title>>

\* the grouping key
GroupKey(rev) == <<rev.product_title, rev.category>>

GroupOf(revs, k) == {j \in 1..Len(revs) : GroupKey(revs[j]) = k}

RECURSIVE SumRatings(_, _)
SumRatings(revs, idx) ==
    IF idx = {} THEN 0
    ELSE LET j == CHOOSE x \in idx : TRUE
         IN  revs[j].rating + SumRatings(revs, idx \ {j})

\* one summary per group; average_rating is rating_sum / review_count
Summary(revs, i) ==
    [product_title |-> revs[i].product_title,
     category      |-> revs[i].category,
     review_count  |-> Cardinality(GroupOf(revs, GroupKey(revs[i]))),
     rating_sum    |-> SumRatings(revs, GroupOf(revs, GroupKey(revs[i])))]

RECURSIVE AggregateFrom(_, _)
AggregateFrom(revs, i) ==
    IF i > Len(revs) THEN << >>
    ELSE (IF \E j \in 1..(i - 1) : GroupKey(revs[j]) = GroupKey(revs[i])
            THEN << >>
            ELSE << Summary(revs, i) >>) \o AggregateFrom(revs, i + 1)

aggregate(revs) == AggregateFrom(revs, 1)

InitCore ==
    /\ reviews \in SeqsUpTo(Reviews, MaxReviews)
    /\ labels = << >>
    /\ summaries = << >>
    /\ cpc = "classify"
    /\ file = << >>
    /\ cached = FALSE
    /\ loads = 0
    /\ df = << >>
    /\ category = CATEGORY_ICONS[1]
    /\ search = S_empty
    /\ pc = "off"
    /\ cat_df = << >>
    /\ filtered = << >>
    /\ product = << >>
    /\ shown = FALSE
    /\ final_score = -1
    /\ verdict = "none"
    /\ outcome = "none"

\* classify the next review
Classify ==
    /\ cpc = "classify"
    /\ Len(labels) < Len(reviews)
    /\ labels' = Append(labels, SentimentLabels(reviews[Len(labels) + 1].rating))
    /\ UNCHANGED <<reviews, summaries, cpc>>
    /\ UNCHANGED appVars

\* aggregate the classified reviews
Aggregate ==
    /\ cpc = "classify"
    /\ Len(labels) = Len(reviews)
    /\ summaries' = aggregate(reviews)
    /\ cpc' = "done"
    /\ UNCHANGED <<reviews, labels>>
    /\ UNCHANGED appVars

NextCore == Classify \/ Aggregate

SpecCore == InitCore /\ [][NextCore]_vars

---------------------------------------------------------------------------
(* Vocabulary of the properties *)

\* s occurs in text as a substring, letter case ignored
ContainsIgnoreCase(s, text) ==
    \E off \in 0..(Len(text) - Len(s)) :
        \A i \in 1..Len(s) : Lower(s[i]) = Lower(text[off + i])

\* the fixed keyword table of section 4.4, on the categories of app.py
KeywordCategory(q) ==
    IF ContainsIgnoreCase(<<"p","h","o","n","e">>, q) THEN "Phones"
    ELSE IF ContainsIgnoreCase(<<"b","o","o","k">>, q) THEN "Books"
    ELSE "none"

RowsOf(rows) == {rows[i] : i \in 1..Len(rows)}

MaxRating(rows) ==
    CHOOSE m \in {rows[i].rating : i \in 1..Len(rows)} :
        \A i \in 1..Len(rows) : rows[i].rating <= m

\* line 169 has been executed in the current (or last finished) run
FilterDone ==
    \/ pc \in {"check_empty", "pick", "header", "verdict"}
    \/ pc = "idle" /\ outcome \in {"warning", "rendered"}

\* the rows the filter is specified to return
SpecifiedFilter(rows, c, s) ==
    SelectSeq(rows, LAMBDA r :
        r.category = c /\ (s = << >> \/ ContainsIgnoreCase(s, r.name)))

---------------------------------------------------------------------------
(* Properties *)

\* C1: the filter result is exactly the subsequence of the table's rows, in
\* order, whose category is the selected one and whose name contains the
\* search text as a case-insensitive substring (every row of the category
\* when the text is empty).
C1_FilterIsSubstringFilter ==
    FilterDone => filtered = SpecifiedFilter(df, category, search)

\* C2: no run ends in an unhandled fault, whatever the table, the selected
\* category and the search text.
C2_NoUnhandledFault == outcome # "fault"

\* C3 (as stated): the selected product has the maximum rating among the
\* candidates, and is the first candidate with that rating.
C3_PicksBestRated ==
    product # << >> =>
        /\ product[1].rating = MaxRating(filtered)
        /\ \E i \in 1..Len(filtered) :
              /\ filtered[i] = product[1]
              /\ \A j \in 1..(i - 1) : filtered[j].rating < MaxRating(filtered)

\* C3 (amended): the selected product is the candidate that comes first in
\* the order of the table, whatever its rating.
C3_PicksFirstCandidate ==
    product # << >> =>
        \E i \in 1..Len(df) :
            /\ df[i] \in RowsOf(filtered)
            /\ \A j \in 1..(i - 1) : df[j] \notin RowsOf(filtered)
            /\ product[1] = df[i]

\* a later candidate is rated higher than the selected one
C3_Witness ==
    /\ product # << >>
    /\ Len(filtered) >= 2
    /\ filtered[2].rating > product[1].rating

\* C4: a product is presented as recommended exactly when its rating is at
\* least 4.0; in particular never when its rating is at most 2.5.
C4_VerdictFollowsRating ==
    outcome = "rendered" =>
        ((verdict = "recommended") <=> (product[1].rating >= 40))

\* C5 (as stated): every rating gets exactly one label, Positive iff
\* r >= 4, Neutral iff r = 3, Negative iff r < 3.
C5_ClassifyTotal ==
    \A i \in 1..Len(labels) :
        LET r == reviews[i].rating
        IN  /\ Cardinality(labels[i]) = 1
            /\ ("Positive" \in labels[i]) <=> (r >= 40)
            /\ ("Neutral" \in labels[i]) <=> (r = 30)
            /\ ("Negative" \in labels[i]) <=> (r < 30)

\* C5 (amended): no rating gets two labels, and every rating that is not
\* strictly between 3 and 4 gets exactly one: Positive iff r >= 4, Neutral
\* iff r = 3, Negative iff r < 3.
C5_ClassifyOutsideGap ==
    \A i \in 1..Len(labels) :
        LET r == reviews[i].rating
        IN  /\ Cardinality(labels[i]) <= 1
            /\ ~(30 < r /\ r < 40) =>
                  /\ Cardinality(labels[i]) = 1
                  /\ ("Positive" \in labels[i]) <=> (r >= 40)
                  /\ ("Neutral" \in labels[i]) <=> (r = 30)
                  /\ ("Negative" \in labels[i]) <=> (r < 30)

\* ratings on both thresholds and outside the 1..5 scale have been classified
C5_Witness ==
    /\ Len(labels) = 2
    /\ reviews[1].rating = 40 /\ labels[1] = {"Positive"}
    /\ reviews[2].rating = 5 /\ labels[2] = {"Negative"}

\* C6 (as stated): when the search text holds a keyword of the table, the
\* displayed product belongs to the keyword's category and is the best
\* rated product of that category.
C6_KeywordOverridesCategory ==
    (shown /\ KeywordCategory(search) # "none") =>
        /\ product[1].category = KeywordCategory(search)
        /\ product[1].rating =
              MaxRating(SelectSeq(df, LAMBDA r :
                  r.category = KeywordCategory(search)))

\* C6 (amended): the displayed product always belongs to the explicitly
\* selected category; a keyword in the search text never replaces it.
C6_SelectedCategoryAlwaysUsed ==
    shown => product[1].category = category

\* a product is displayed while the search text holds another category's keyword
C6_Witness ==
    /\ shown
    /\ KeywordCategory(search) \notin {"none", category}

\* C7: aggregation yields one summary per distinct (product_title,
\* category) key, and the review counts of the summaries add up to the
\* number of reviews.
C7_AggregatePartitions ==
    cpc = "done" =>
        LET keys == {<<reviews[i].product_title, reviews[i].category>> :
                        i \in 1..Len(reviews)}
            keyOf(s) == <<s.product_title, s.category>>
            total[n \in 0..Len(summaries)] ==
                IF n = 0 THEN 0 ELSE total[n - 1] + summaries[n].review_count
        IN  /\ {keyOf(summaries[n]) : n \in 1..Len(summaries)} = keys
            /\ Len(summaries) = Cardinality(keys)
            /\ total[Len(summaries)] = Len(reviews)

\* one title reviewed under two categories, aggregated
C7_Witness ==
    /\ cpc = "done"
    /\ Len(reviews) = 2
    /\ reviews[1].product_title = reviews[2].product_title
    /\ reviews[1].category # reviews[2].category
    /\ Len(summaries) = 2

\* C8: the table is read at most once per session, and once it is loaded
\* no step of any run changes its rows or their order.
C8_LoadedOnceThenFrozen ==
    [][loads' <= 1 /\ (cached => df' = df)]_vars

\* a run started by an interaction has gone past the load with one read
C8_Witness ==
    /\ search # S_empty
    /\ category # CATEGORY_ICONS[1]
    /\ pc = "idle"
    /\ outcome = "rendered"
    /\ loads = 1
    /\ df = file

\* C9: the displayed product is a row of the table, of the selected
\* category, whose name contains the search text case-insensitively.
C9_ShownProductMatches ==
    shown =>
        /\ product[1] \in RowsOf(df)
        /\ product[1].category = category
        /\ (search # << >> => ContainsIgnoreCase(search, product[1].name))

\* C10: a finished run warned exactly when the search text is non-empty
\* and no row of the selected category contains it, and a run that warned
\* selected and rendered no product.
C10_WarningExactlyWhenNoMatch ==
    (pc = "idle") =>
        /\ (outcome = "warning") <=>
              (search # << >> /\ SpecifiedFilter(df, category, search) = << >>)
        /\ (outcome = "warning") => (product = << >> /\ ~shown)

====
